---- MODULE Spec2Model ----
(***************************************************************************)
(* CCDI liftover mappings: the chain builder, the Map-MDF assembler, the   *)
(* single-table converter and the pairwise extractor of                    *)
(* src/src/convert_mappings/ccdi_liftover.py, driven as the scripts under  *)
(* src/scripts drive them.                                                 *)
(*                                                                         *)
(* Model names and version strings are sequences of characters, because    *)
(* the code builds the one from the other ("CCDI" + "v" + version) and     *)
(* takes it apart again (model.split("v")[-1]).  Node and property names   *)
(* are only compared and tested for emptiness: they are strings, "" being  *)
(* the empty cell.  A Python dict is a function; a Python list a sequence. *)
(***************************************************************************)
EXTENDS Integers, Sequences, FiniteSets, Bags, TLC

VARIABLES
    mode,             \* "chain": multiple_liftover_to_mdf; "table": ccdi_liftover_to_map_mdf
    df,               \* the rows of the loaded liftover table(s)
    linking_model,    \* the linking (anchor) model, the Source of the mapping dict
    pc,               \* position of the run
    edges,            \* build_chains: its argument
    starting_edges,   \* build_chains: the chain heads
    si,               \* build_chains: index of the head being walked
    chain,            \* build_chains: the chain under construction
    current,          \* build_chains: the edge the walk stands on
    complete_chains,  \* build_chains: chains that end at the linking model
    conflict_chains,  \* build_chains: the other chains
    mapping_dict,     \* the Map-MDF dict [Source, Models, Props, TBD]
    ci,               \* index of the next chain / row to fold into mapping_dict
    source_model,     \* extract_pairwise_mappings: its argument
    mappings,         \* extract_pairwise_mappings: the returned rows, as a bag
    error             \* the exception extract_pairwise_mappings ended with, or "none"

vars == <<mode, df, linking_model, pc, edges, starting_edges, si, chain, current,
          complete_chains, conflict_chains, mapping_dict, ci, source_model,
          mappings, error>>

----------------------------------------------------------------------------
(* Bounds and the input universe *)

MaxRows == 3

\* a walk longer than the edge list has revisited an edge; the model follows
\* it two hops further and no more
MaxChain == MaxRows + 2

HANDLE == <<"C", "C", "D", "I">>

V172 == <<"1", ".", "7", ".", "2">>
V180 == <<"1", ".", "8", ".", "0">>
V191 == <<"1", ".", "9", ".", "1">>
V210 == <<"2", ".", "1", ".", "0">>

Row(fn, fp, fv, tn, tp, tv) ==
    [lift_from_node |-> fn, lift_from_property |-> fp, lift_from_version |-> fv,
     lift_to_node |-> tn, lift_to_property |-> tp, lift_to_version |-> tv]

\* The rows a table is drawn from: a two-hop lineage, a back edge closing a
\* cycle, a branch, a second head, unmapped and half-mapped destinations, an
\* empty source property and a second source of the same target.
RowUniverse ==
    { Row("n1", "p1", V172, "n2", "p2", V191),
      Row("n2", "p2", V191, "n3", "p3", V210),
      Row("n2", "p2", V191, "n1", "p1", V172),
      Row("n1", "p1", V172, "n3", "p3", V210),
      Row("n3", "p1", V172, "n2", "p2", V191),
      Row("n2", "p2", V172, "",   "",   V210),
      Row("n2", "p2", V191, "n3", "",   V210),
      Row("n1", "",   V172, "n3", "p3", V210),
      Row("n2", "p2", V172, "n3", "p3", V210) }

RECURSIVE SeqsUpTo(_, _)
SeqsUpTo(S, n) ==
    IF n = 0 THEN {<<>>}
    ELSE LET shorter == SeqsUpTo(S, n - 1)
         IN  shorter \cup {Append(s, x) : s \in {t \in shorter : Len(t) = n - 1}, x \in S}

Tables == SeqsUpTo(RowUniverse, MaxRows)

----------------------------------------------------------------------------
(* Python values *)

EmptyDict == [k \in {} |-> {}]

Put(d, k, v) == [x \in DOMAIN d \cup {k} |-> IF x = k THEN v ELSE d[x]]

Truthy(s) == s # ""

InList(x, list) == \E i \in 1..Len(list) : list[i] = x

\* "".join([HANDLE, "v", version]) and f"CCDIv{version}"
ModelName(version) == HANDLE \o <<"v">> \o version

\* model.split("v")[-1]
SplitLast(s) ==
    IF \E i \in 1..Len(s) : s[i] = "v"
    THEN LET last == CHOOSE i \in 1..Len(s) :
                        s[i] = "v" /\ \A j \in (i + 1)..Len(s) : s[j] # "v"
         IN  SubSeq(s, last + 1, Len(s))
    ELSE s

ModelNames == {ModelName(V172), ModelName(V191), ModelName(V210)}

\* the models a caller may ask extract_pairwise_mappings for
SourceModels == ModelNames \cup {ModelName(V180)}

----------------------------------------------------------------------------
(* extract_edges *)

EdgeOf(row) ==
    [old_node  |-> row.lift_from_node,
     old_prop  |-> row.lift_from_property,
     old_model |-> ModelName(row.lift_from_version),
     new_node  |-> row.lift_to_node,
     new_prop  |-> row.lift_to_property,
     new_model |-> ModelName(row.lift_to_version)]

extract_edges(rows) == [i \in 1..Len(rows) |-> EdgeOf(rows[i])]

----------------------------------------------------------------------------
(* build_chains *)

SourceKey(e) == <<e.old_model, e.old_node, e.old_prop>>

DestKey(e) == <<e.new_model, e.new_node, e.new_prop>>

dest_keys(es) ==
    {DestKey(es[i]) : i \in {j \in 1..Len(es) :
        es[j].new_model # <<>> /\ Truthy(es[j].new_node) /\ Truthy(es[j].new_prop)}}

RECURSIVE Filter(_, _)
Filter(es, keys) ==
    IF es = <<>> THEN <<>>
    ELSE IF SourceKey(Head(es)) \notin keys
         THEN <<Head(es)>> \o Filter(Tail(es), keys)
         ELSE Filter(Tail(es), keys)

\* heads found in one pass: only the destinations of earlier edges are known
StartingEdgesSeen(es) ==
    LET heads == {i \in 1..Len(es) :
                     SourceKey(es[i]) \notin dest_keys(SubSeq(es, 1, i - 1))}
        RECURSIVE Pick(_)
        Pick(i) == IF i > Len(es) THEN <<>>
                   ELSE IF i \in heads THEN <<es[i]>> \o Pick(i + 1)
                   ELSE Pick(i + 1)
    IN  Pick(1)

StartingEdges(es) == Filter(es, dest_keys(es))

\* next((e for e in edges if source(e) == next_key), None)
HasNext(es, key) == \E i \in 1..Len(es) : SourceKey(es[i]) = key

NextEdge(es, key) ==
    es[CHOOSE i \in 1..Len(es) :
          SourceKey(es[i]) = key /\ \A j \in 1..(i - 1) : SourceKey(es[j]) # key]

WalkStops(es, cur) ==
    \/ ~Truthy(cur.new_node)
    \/ ~Truthy(cur.new_prop)
    \/ ~HasNext(es, DestKey(cur))

\* the chain the while loop builds from the chain c it has so far
RECURSIVE WalkFrom(_, _)
WalkFrom(es, c) ==
    IF WalkStops(es, c[Len(c)]) \/ Len(c) >= MaxChain THEN c
    ELSE WalkFrom(es, Append(c, NextEdge(es, DestKey(c[Len(c)]))))

\* the chains build_chains builds, one per head
BuiltChains(es) ==
    LET heads == StartingEdges(es)
    IN  {WalkFrom(es, <<heads[i]>>) : i \in 1..Len(heads)}

\* the check without the property test
IsCompleteNoProp(cur, anchor) == cur.new_model = anchor /\ Truthy(cur.new_node)

\* the check without the node and property tests
IsCompleteModelOnly(cur, anchor) == cur.new_model = anchor

IsComplete(cur, anchor) ==
    cur.new_model = anchor /\ Truthy(cur.new_node) /\ Truthy(cur.new_prop)

\* build_chains' two results, as sets of chains
CompleteSet(es, anchor) == {c \in BuiltChains(es) : IsComplete(c[Len(c)], anchor)}

ConflictSet(es, anchor) == {c \in BuiltChains(es) : ~IsComplete(c[Len(c)], anchor)}

NoEdge == [old_node |-> "", old_prop |-> "", old_model |-> <<>>,
           new_node |-> "", new_prop |-> "", new_model |-> <<>>]

EmptyMapping == [Source |-> <<>>, Models |-> EmptyDict, Props |-> EmptyDict,
                 TBD |-> EmptyDict]

Init ==
    /\ mode \in {"chain", "table"}
    /\ df \in Tables
    /\ linking_model \in ModelNames
    /\ pc = "loaded"
    /\ edges = <<>>
    /\ starting_edges = <<>>
    /\ si = 0
    /\ chain = <<>>
    /\ current = NoEdge
    /\ complete_chains = <<>>
    /\ conflict_chains = <<>>
    /\ mapping_dict = EmptyMapping
    /\ ci = 0
    /\ source_model = <<>>
    /\ mappings = EmptyBag
    /\ error = "none"

\* the for loop enters its next iteration, or build_chains returns
EnterHead(heads, i) ==
    IF i <= Len(heads)
    THEN /\ pc' = "walk"
         /\ chain' = <<heads[i]>>
         /\ current' = heads[i]
    ELSE /\ pc' = "returned"
         /\ chain' = <<>>
         /\ current' = NoEdge

\* main: extract the edges and call build_chains, up to the first head
BuildStart ==
    /\ pc = "loaded"
    /\ mode = "chain"
    /\ edges' = extract_edges(df)
    /\ starting_edges' = StartingEdges(edges')
    /\ si' = 1
    /\ EnterHead(starting_edges', 1)
    /\ UNCHANGED <<mode, df, linking_model, complete_chains, conflict_chains,
                   mapping_dict, ci, source_model, mappings, error>>

\* one turn of the while loop that finds a next edge
WalkStep ==
    /\ pc = "walk"
    /\ ~WalkStops(edges, current)
    /\ Len(chain) < MaxChain
    /\ chain' = Append(chain, NextEdge(edges, DestKey(current)))
    /\ current' = NextEdge(edges, DestKey(current))
    /\ UNCHANGED <<mode, df, linking_model, pc, edges, starting_edges, si,
                   complete_chains, conflict_chains, mapping_dict, ci,
                   source_model, mappings, error>>

\* the while loop breaks; the chain is classified; the for loop goes on
WalkEnd ==
    /\ pc = "walk"
    /\ WalkStops(edges, current)
    /\ IF IsComplete(current, linking_model)
       THEN /\ complete_chains' = Append(complete_chains, chain)
            /\ UNCHANGED conflict_chains
       ELSE /\ conflict_chains' = Append(conflict_chains, chain)
            /\ UNCHANGED complete_chains
    /\ si' = si + 1
    /\ EnterHead(starting_edges, si + 1)
    /\ UNCHANGED <<mode, df, linking_model, edges, starting_edges, mapping_dict,
                   ci, source_model, mappings, error>>

----------------------------------------------------------------------------
(* update_mapping_dict and the assembly in main *)

\* the first edge taken for the final one
FirstEdge(c) == c[1]

\* final_edge = chain[-1]
FinalEdge(c) == c[Len(c)]

\* {edge["old_prop"]: {"Parents": edge["old_node"]}}
Entry(prop, node) == prop :> [Parents |-> node]

\* the append without the membership test
AlwaysAppend(entry, list) == TRUE

\* if entry not in mapping_dict["Props"][target_node][target_prop][model]
ShouldAppend(entry, list) == ~InList(entry, list)

\* if m not in mapping_dict["Models"]: mapping_dict["Models"][m] = {"Version": ver}
Register(models, m, ver) ==
    IF m \notin DOMAIN models THEN Put(models, m, [Version |-> ver]) ELSE models

\* one turn of "for edge in chain"
AddEdge(md, target_node, target_prop, edge) ==
    LET model == edge.old_model
        entry == Entry(edge.old_prop, edge.old_node)
        pm0   == md.Props[target_node][target_prop]
        pm1   == IF model \notin DOMAIN pm0 THEN Put(pm0, model, <<>>) ELSE pm0
        pm2   == IF ShouldAppend(entry, pm1[model])
                 THEN Put(pm1, model, Append(pm1[model], entry))
                 ELSE pm1
        ms1   == Register(md.Models, edge.old_model, SplitLast(edge.old_model))
        ms2   == Register(ms1, edge.new_model, SplitLast(edge.new_model))
    IN  [md EXCEPT
            !.Props  = Put(md.Props, target_node,
                           Put(md.Props[target_node], target_prop, pm2)),
            !.Models = ms2]

RECURSIVE AddEdges(_, _, _, _)
AddEdges(md, target_node, target_prop, es) ==
    IF es = <<>> THEN md
    ELSE AddEdges(AddEdge(md, target_node, target_prop, Head(es)),
                  target_node, target_prop, Tail(es))

update_mapping_dict(md, c) ==
    LET target_node == FinalEdge(c).new_node
        target_prop == FinalEdge(c).new_prop
        props1 == IF target_node \notin DOMAIN md.Props
                  THEN Put(md.Props, target_node, EmptyDict)
                  ELSE md.Props
        props2 == IF target_prop \notin DOMAIN props1[target_node]
                  THEN Put(props1, target_node,
                           Put(props1[target_node], target_prop, EmptyDict))
                  ELSE props1
    IN  AddEdges([md EXCEPT !.Props = props2], target_node, target_prop, c)

\* f"chain_{idx}"
ChainKey(idx) == <<"chain_", idx>>

\* mapping_dict["TBD"][f"chain_{idx}"] = chain, idx counting from 1
RecordConflicts(conflicts) ==
    [k \in {ChainKey(i) : i \in 1..Len(conflicts)} |-> conflicts[k[2]]]

NewMapping(source) ==
    [Source |-> source, Models |-> EmptyDict, Props |-> EmptyDict, TBD |-> EmptyDict]

\* for chain in complete_chains: update_mapping_dict(mapping_dict, chain)
RECURSIVE MapChains(_, _)
MapChains(md, chains) ==
    IF chains = <<>> THEN md
    ELSE MapChains(update_mapping_dict(md, Head(chains)), Tail(chains))

\* main: the mapping dict is created
AssembleStart ==
    /\ pc = "returned"
    /\ mapping_dict' = NewMapping(linking_model)
    /\ ci' = 1
    /\ pc' = "assemble"
    /\ UNCHANGED <<mode, df, linking_model, edges, starting_edges, si, chain,
                   current, complete_chains, conflict_chains, source_model,
                   mappings, error>>

\* main: one turn of "for chain in complete_chains"
MapChain ==
    /\ pc = "assemble"
    /\ ci <= Len(complete_chains)
    /\ mapping_dict' = update_mapping_dict(mapping_dict, complete_chains[ci])
    /\ ci' = ci + 1
    /\ UNCHANGED <<mode, df, linking_model, pc, edges, starting_edges, si, chain,
                   current, complete_chains, conflict_chains, source_model,
                   mappings, error>>

\* main: the conflict chains go to TBD and the dict is dumped
RecordTBD ==
    /\ pc = "assemble"
    /\ ci > Len(complete_chains)
    /\ mapping_dict' = [mapping_dict EXCEPT !.TBD = RecordConflicts(conflict_chains)]
    /\ pc' = "assembled"
    /\ UNCHANGED <<mode, df, linking_model, edges, starting_edges, si, chain,
                   current, complete_chains, conflict_chains, ci, source_model,
                   mappings, error>>

----------------------------------------------------------------------------
(* convert_df_to_map_dict *)

update_model_info(row, md) ==
    LET old_model == ModelName(row.lift_from_version)
        new_model == ModelName(row.lift_to_version)
        ms1 == IF old_model \notin DOMAIN md.Models
               THEN Put(md.Models, old_model, [Version |-> row.lift_from_version])
               ELSE md.Models
        ms2 == IF new_model \notin DOMAIN ms1
               THEN Put(ms1, new_model, [Version |-> row.lift_to_version])
               ELSE ms1
    IN  [md EXCEPT !.Models = ms2]

update_node_info(row, md) ==
    IF ~Truthy(row.lift_to_node)
    THEN [md EXCEPT !.TBD = Put(md.TBD, row.lift_from_node, row)]
    ELSE IF row.lift_to_node \notin DOMAIN md.Props
         THEN [md EXCEPT !.Props = Put(md.Props, row.lift_to_node, EmptyDict)]
         ELSE md

\* the list the new property starts with, given the row that created it
FirstEntries(row) ==
    IF Truthy(row.lift_from_property) /\ ~InList(row.lift_from_property, <<>>)
    THEN <<Entry(row.lift_from_property, row.lift_from_node)>>
    ELSE <<>>

update_prop_info(row, md) ==
    IF ~Truthy(row.lift_to_node) THEN md
    ELSE IF row.lift_to_property \notin DOMAIN md.Props[row.lift_to_node]
         THEN LET old_model == ModelName(row.lift_from_version)
              IN  [md EXCEPT !.Props =
                      Put(md.Props, row.lift_to_node,
                          Put(md.Props[row.lift_to_node], row.lift_to_property,
                              old_model :> FirstEntries(row)))]
         ELSE md

ConvertStart ==
    /\ pc = "loaded"
    /\ mode = "table"
    /\ mapping_dict' = NewMapping(linking_model)
    /\ ci' = 1
    /\ pc' = "convert"
    /\ UNCHANGED <<mode, df, linking_model, edges, starting_edges, si, chain,
                   current, complete_chains, conflict_chains, source_model,
                   mappings, error>>

\* one turn of "for row in df.rows(named=True)"
ConvertRow ==
    /\ pc = "convert"
    /\ ci <= Len(df)
    /\ mapping_dict' =
          update_prop_info(df[ci],
              update_node_info(df[ci], update_model_info(df[ci], mapping_dict)))
    /\ ci' = ci + 1
    /\ UNCHANGED <<mode, df, linking_model, pc, edges, starting_edges, si, chain,
                   current, complete_chains, conflict_chains, source_model,
                   mappings, error>>

ConvertEnd ==
    /\ pc = "convert"
    /\ ci > Len(df)
    /\ pc' = "assembled"
    /\ UNCHANGED <<mode, df, linking_model, edges, starting_edges, si, chain,
                   current, complete_chains, conflict_chains, mapping_dict, ci,
                   source_model, mappings, error>>

----------------------------------------------------------------------------
(* extract_pairwise_mappings *)

\* the (target_node, target_prop, position) of every entry listed for sm
EntryIndex(md, sm) ==
    UNION { UNION { {<<tn, tp, i>> : i \in 1..Len(md.Props[tn][tp][sm])}
                    : tp \in {q \in DOMAIN md.Props[tn] : sm \in DOMAIN md.Props[tn][q]} }
            : tn \in DOMAIN md.Props }

\* the rows of "for source_prop, details in mapping.items()" for one entry
EntryRows(md, sm, x) ==
    LET mapping == md.Props[x[1]][x[2]][sm][x[3]]
    IN  {Row(mapping[source_prop].Parents, source_prop, md.Models[sm].Version,
             x[1], x[2], md.Models[md.Source].Version)
         : source_prop \in DOMAIN mapping}

\* the rows appended in the loop over Props, with their multiplicity
PropRows(md, sm) ==
    LET produced == UNION {{<<x, r>> : r \in EntryRows(md, sm, x)}
                           : x \in EntryIndex(md, sm)}
    IN  [r \in {p[2] : p \in produced} |->
            Cardinality({p \in produced : p[2] = r})]

\* "for edge in mapping_dict["TBD"]" walks the keys of the dict, which are
\* strings, and edge["old_model"] subscripts the first one with a string
TBDLoopRaises(tbd) == DOMAIN tbd # {}

ExtractError(md, sm) ==
    IF md.Source \notin DOMAIN md.Models THEN "KeyError"
    ELSE IF sm \notin DOMAIN md.Models THEN "ValueError"
    ELSE IF TBDLoopRaises(md.TBD) THEN "TypeError"
    ELSE "none"

ExtractRows(md, sm) ==
    IF ExtractError(md, sm) = "none" THEN PropRows(md, sm) ELSE EmptyBag

\* map_mdf_to_liftover: the caller names a source model and extracts it
Extract ==
    /\ pc = "assembled"
    /\ \E sm \in SourceModels :
          /\ source_model' = sm
          /\ error' = ExtractError(mapping_dict, sm)
          /\ mappings' = ExtractRows(mapping_dict, sm)
    /\ pc' = "extracted"
    /\ UNCHANGED <<mode, df, linking_model, edges, starting_edges, si, chain,
                   current, complete_chains, conflict_chains, mapping_dict, ci>>

----------------------------------------------------------------------------
Next ==
    \/ BuildStart
    \/ WalkStep
    \/ WalkEnd
    \/ AssembleStart
    \/ MapChain
    \/ RecordTBD
    \/ ConvertStart
    \/ ConvertRow
    \/ ConvertEnd
    \/ Extract

Spec == Init /\ [][Next]_vars

----------------------------------------------------------------------------
(* Vocabulary of the properties *)

Range(seq) == {seq[i] : i \in 1..Len(seq)}

Versions == {V172, V180, V191, V210}

\* the version string a model name was formed from
VersionNamed(m) == CHOOSE v \in Versions : ModelName(v) = m

Chains == Range(complete_chains) \cup Range(conflict_chains)

ReachesAnchor(c) ==
    /\ c[Len(c)].new_model = linking_model
    /\ c[Len(c)].new_node # ""
    /\ c[Len(c)].new_prop # ""

Assembled == mode = "chain" /\ pc \in {"assembled", "extracted"}

Converted == mode = "table" /\ pc \in {"assembled", "extracted"}

TwoHopTable ==
    << Row("n1", "p1", V172, "n2", "p2", V191),
       Row("n2", "p2", V191, "n3", "p3", V210) >>

\* some pair of distinct edges A, B with dest(A) = source(B), dest(B) = source(A)
TwoCycle(es) ==
    \E i, j \in 1..Len(es) :
        /\ i # j
        /\ DestKey(es[i]) = SourceKey(es[j])
        /\ DestKey(es[j]) = SourceKey(es[i])

----------------------------------------------------------------------------
(* C1: build_chains terminates: every forward walk stops.  The next edge   *)
(* is a function of the current edge alone, so a walk stops if and only if *)
(* it never stands on the same edge twice, that is, if and only if its     *)
(* chain never gets longer than the edge list.                             *)
C1_EveryWalkStops == pc = "walk" => Len(chain) <= Len(edges)

(* C2: on an edge set holding a two-edge cycle build_chains does not       *)
(* return a (complete, conflicted) result: it ends with CycleDetected.     *)
C2_TwoCycleDoesNotReturn ==
    (mode = "chain" /\ TwoCycle(edges)) => pc \notin {"returned", "assemble", "assembled", "extracted"}

(* C3: a returned chain is in the complete list iff its final edge maps    *)
(* into the anchor with non-empty node and property, in the conflicted     *)
(* list otherwise, and in no case in both.                                 *)
C3_Classification ==
    /\ \A c \in Range(complete_chains) : ReachesAnchor(c)
    /\ \A c \in Range(conflict_chains) : ~ReachesAnchor(c)
    /\ Range(complete_chains) \cap Range(conflict_chains) = {}
    /\ pc = "returned" =>
          Len(complete_chains) + Len(conflict_chains) = Len(starting_edges)

\* a run that returned a complete chain and a chain that reaches the anchor
\* model with an empty destination property
C3_Witness ==
    /\ pc = "returned"
    /\ complete_chains # <<>>
    /\ \E c \in Range(conflict_chains) :
          c[Len(c)].new_model = linking_model /\ c[Len(c)].new_node # ""

----------------------------------------------------------------------------
Mapped(row) == row.lift_to_node # "" /\ row.lift_from_property # ""

(* C4: extracting src from the dict converted from a table with Source src *)
(* returns every mapped row of the table.                                  *)
C4_RoundTrip ==
    (mode = "table" /\ pc = "extracted" /\ source_model = linking_model) =>
        \A i \in 1..Len(df) : Mapped(df[i]) => BagIn(df[i], mappings)

(* C5: every model named by an edge of a chain kept in Props or in TBD is  *)
(* a key of Models.                                                        *)
C5_ModelsOfRetainedEdges ==
    Assembled =>
        \A c \in Chains : \A e \in Range(c) :
            e.old_model \in DOMAIN mapping_dict.Models
            /\ e.new_model \in DOMAIN mapping_dict.Models

(* C6: extraction for a source model that is no key of Models ends with    *)
(* the missing-source-model ValueError and with no other error.            *)
C6_MissingSourceModel ==
    (pc = "extracted" /\ source_model \notin DOMAIN mapping_dict.Models) =>
        error = "ValueError"

\* the TBD rows asked of the extraction: one per conflicted chain (chain
\* assembler) or unresolved row (single-table converter) that originates in sm
UnresolvedRows(sm) ==
    LET sv == mapping_dict.Models[sm].Version
        lv == mapping_dict.Models[mapping_dict.Source].Version
    IN  IF mode = "chain"
        THEN {Row(c[1].old_node, c[1].old_prop, sv, "", "", lv)
              : c \in {t \in Range(conflict_chains) : t[1].old_model = sm}}
        ELSE {Row(mapping_dict.TBD[k].lift_from_node,
                  mapping_dict.TBD[k].lift_from_property, sv, "", "", lv)
              : k \in {q \in DOMAIN mapping_dict.TBD :
                          ModelName(mapping_dict.TBD[q].lift_from_version) = sm}}

(* C7: extraction of a source model recorded in Models returns, for every  *)
(* TBD entry that originates in that model, a row with the entry's source  *)
(* node and property, empty destination and the two versions.              *)
C7_UnresolvedRowsReturned ==
    (/\ pc = "extracted"
     /\ source_model \in DOMAIN mapping_dict.Models
     /\ mapping_dict.Source \in DOMAIN mapping_dict.Models) =>
        /\ error = "none"
        /\ \A r \in UnresolvedRows(source_model) : BagIn(r, mappings)

----------------------------------------------------------------------------
\* one row per (complete chain c, edge e of c that originates in model m)
ChainRows(m) ==
    UNION {{Row(c[i].old_node, c[i].old_prop, VersionNamed(m),
                c[Len(c)].new_node, c[Len(c)].new_prop, VersionNamed(linking_model))
            : i \in {j \in 1..Len(c) : c[j].old_model = m}}
           : c \in Range(complete_chains)}

(* C8: with no conflicted chain, extracting a model M recorded in Models   *)
(* returns exactly the rows of ChainRows(M), as a set; the two-hop table   *)
(* yields the single row n1,p1,1.7.2 -> n3,p3,2.1.0 once.                  *)
C8_ExtractedRows ==
    (/\ mode = "chain" /\ pc = "extracted"
     /\ conflict_chains = <<>>
     /\ source_model \in DOMAIN mapping_dict.Models) =>
        /\ error = "none"
        /\ BagToSet(mappings) = ChainRows(source_model)
        /\ (df = TwoHopTable /\ linking_model = ModelName(V210)
            /\ source_model = ModelName(V172)) =>
               mappings = SetToBag({Row("n1", "p1", V172, "n3", "p3", V210)})

\* the two-hop table extracted for CCDIv1.7.2
C8_Witness ==
    /\ mode = "chain" /\ pc = "extracted"
    /\ df = TwoHopTable /\ linking_model = ModelName(V210)
    /\ source_model = ModelName(V172)
    /\ conflict_chains = <<>>
    /\ Len(complete_chains) = 1 /\ Len(complete_chains[1]) = 2
    /\ BagCardinality(mappings) = 1

----------------------------------------------------------------------------
PropKeys == UNION {{<<tn, tp>> : tp \in DOMAIN mapping_dict.Props[tn]}
                   : tn \in DOMAIN mapping_dict.Props}

TBDChains == {mapping_dict.TBD[k] : k \in DOMAIN mapping_dict.TBD}

(* C9: after assembly a chain whose final edge does not map into the       *)
(* anchor model is conflicted and in TBD; every Props key is the final     *)
(* (new_node, new_prop) of a chain that reaches the anchor; no chain of    *)
(* TBD is one of the chains folded into Props.                             *)
C9_ConflictedOnlyInTBD ==
    Assembled =>
        /\ \A c \in Chains :
              c[Len(c)].new_model # linking_model =>
                 /\ c \in Range(conflict_chains)
                 /\ c \in TBDChains
                 /\ c \notin Range(complete_chains)
        /\ \A k \in PropKeys :
              \E c \in Range(complete_chains) :
                 ReachesAnchor(c) /\ k = <<c[Len(c)].new_node, c[Len(c)].new_prop>>
        /\ TBDChains \cap Range(complete_chains) = {}
        /\ TBDChains = Range(conflict_chains)

\* an assembled dict with a target in Props, a chain in TBD that ends off
\* the anchor and one that ends at the anchor with no property
C9_Witness ==
    /\ Assembled
    /\ PropKeys # {}
    /\ \E c \in TBDChains : c[Len(c)].new_model # linking_model
    /\ \E c \in TBDChains : c[Len(c)].new_model = linking_model

----------------------------------------------------------------------------
NoDuplicates(list) ==
    \A i, j \in 1..Len(list) : list[i] = list[j] => i = j

PropLists ==
    UNION {UNION {{mapping_dict.Props[tn][tp][m] : m \in DOMAIN mapping_dict.Props[tn][tp]}
                  : tp \in DOMAIN mapping_dict.Props[tn]}
           : tn \in DOMAIN mapping_dict.Props}

(* C10: folding the complete chains into the assembled dict a second time  *)
(* changes neither Models nor Props, and no Props list holds an entry      *)
(* twice.                                                                  *)
C10_AssemblyIdempotent ==
    Assembled =>
        /\ MapChains(mapping_dict, complete_chains).Models = mapping_dict.Models
        /\ MapChains(mapping_dict, complete_chains).Props = mapping_dict.Props
        /\ \A list \in PropLists : NoDuplicates(list)

\* two complete chains that share their final edge, so that its entry is
\* offered twice to the same list
C10_Witness ==
    /\ Assembled
    /\ Len(complete_chains) = 2
    /\ Len(complete_chains[1]) = 2
    /\ Len(complete_chains[2]) = 2
    /\ complete_chains[1] # complete_chains[2]
    /\ complete_chains[1][2] = complete_chains[2][2]
    /\ \E list \in PropLists : Len(list) = 2
----------------------------------------------------------------------------
UniqueSources(es) ==
    \A i, j \in 1..Len(es) : SourceKey(es[i]) = SourceKey(es[j]) => i = j

Permute(es, p) == [i \in 1..Len(es) |-> es[p[i]]]

(* C11: when no two edges share a source triple, build_chains returns the  *)
(* same set of complete chains and the same set of conflicted chains for   *)
(* every permutation of the edge list.                                     *)
C11_OrderIndependent ==
    (mode = "chain" /\ pc = "returned" /\ UniqueSources(edges)) =>
        \A p \in Permutations(1..Len(edges)) :
            /\ CompleteSet(Permute(edges, p), linking_model) = Range(complete_chains)
            /\ ConflictSet(Permute(edges, p), linking_model) = Range(conflict_chains)

\* three edges with distinct sources that build a complete chain of two
\* edges and a conflicted chain
C11_Witness ==
    /\ mode = "chain" /\ pc = "returned"
    /\ Len(edges) = 3 /\ UniqueSources(edges)
    /\ \E c \in Range(complete_chains) : Len(c) = 2
    /\ conflict_chains # <<>>
----------------------------------------------------------------------------
(* C12: after the conversion of a table, every row with a destination node *)
(* and a source property has its entry {old_prop: {Parents: old_node}} in  *)
(* the list Props[new_node][new_prop][old_model].                          *)
C12_MappedRowsRecorded ==
    Converted =>
        \A i \in 1..Len(df) :
            Mapped(df[i]) =>
                LET tn    == df[i].lift_to_node
                    tp    == df[i].lift_to_property
                    model == ModelName(df[i].lift_from_version)
                    props == mapping_dict.Props
                IN  /\ tn \in DOMAIN props
                    /\ tp \in DOMAIN props[tn]
                    /\ model \in DOMAIN props[tn][tp]
                    /\ \E k \in 1..Len(props[tn][tp][model]) :
                          props[tn][tp][model][k] =
                             (df[i].lift_from_property :>
                                 [Parents |-> df[i].lift_from_node])

(* C13: when build_chains returns, every edge of its input is an edge of   *)
(* some returned chain, complete or conflicted.                            *)
C13_NoEdgeLost ==
    (mode = "chain" /\ pc = "returned") =>
        \A i \in 1..Len(edges) : \E c \in Chains : edges[i] \in Range(c)
====
